---- MODULE Spec2Model ----
(***************************************************************************)
(* Device sync client of the control panel (the page script with the       *)
(* master-device endpoints): connectivity probe, status synchronisation,   *)
(* command dispatch, activity log and poll scheduler, as one state         *)
(* machine.  Every action is one run of the event loop: a handler runs     *)
(* from its start, or from the await it was suspended at, to its next      *)
(* await or its return.                                                    *)
(***************************************************************************)
EXTENDS Integers, Sequences, FiniteSets, TLC

VARIABLES
    masterStatus,   \* 'connected' | 'disconnected'
    deviceData,     \* device registry: deviceType -> record
    logs,           \* activity log, newest first
    updateTimer,    \* handle of the poll interval, 0 for null
    timers,         \* handles of the intervals that are active
    probes,         \* health requests in flight, oldest first: the caller of
                    \* each and (history) whether a younger one has ended
    syncs,          \* getAllDevicesStatus calls in flight: deviceType -> result
    refreshTimers,  \* pending setTimeout(refreshSingleDevice): deviceType -> count
    refreshes,      \* refreshSingleDevice requests in flight: deviceType -> count
    commands,       \* command requests in flight, oldest first
    loading,        \* devices whose page carries the 'loading' class
    details,        \* loadDeviceDetails requests in flight: deviceType -> count
    lastFetched,    \* history: deviceType -> instance list of the newest status
                    \* response received for it
    ret             \* history: what the last step was and what it returned

vars == <<masterStatus, deviceData, logs, updateTimer, timers, probes, syncs,
          refreshTimers, refreshes, commands, loading, details, lastFetched,
          ret>>

----------------------------------------------------------------------------
(* Bounds of the exploration *)

\* Handlers other than clearLogs run only while the log is shorter than this.
MaxLogged == 2

\* Handler invocations suspended at an await, or waiting for their one-shot
\* timer, at once.
MaxInFlight == 2

\* getAllDevicesStatus calls awaiting their responses at once.
MaxSyncs == 1

----------------------------------------------------------------------------
(* Configuration *)

logMaxEntries == 100

DeviceOrder == <<"keylogger", "keystroke_injector", "ethernet_tap", "evil_twin">>

DeviceTypes == {DeviceOrder[i] : i \in 1..Len(DeviceOrder)}

\* A key deviceData does not hold, for the callers that pass one.
UnknownDevice == "printer"

\* Device types the operator sends commands for.
CommandTargets == {"keylogger", UnknownDevice}

\* Devices whose status endpoint answers; the others only ever fail.
Responsive == {"keylogger"}

\* Place of a device in the registry
Position(d) == CHOOSE j \in 1..Len(DeviceOrder) : DeviceOrder[j] = d

\* The devices that never answer and come before d in the registry: the
\* requests to them are sent before the one to d and fail before it.
SilentBefore(d) ==
    {e \in DeviceTypes \ Responsive : Position(e) < Position(d)}

Null == "null"
Absent == "absent"

DeviceId(d) ==
    CASE d = "keylogger" -> "device1"
      [] d = "keystroke_injector" -> "device2"
      [] d = "ethernet_tap" -> "device3"
      [] OTHER -> "device4"

DeviceEndpoint(d) ==
    CASE d = "keylogger" -> "/keylogger"
      [] d = "keystroke_injector" -> "/keystroke-injector"
      [] d = "ethernet_tap" -> "/ethernet-tap"
      [] OTHER -> "/evil-twin"

DeviceCapabilities(d) ==
    CASE d = "keylogger" ->
            {"start_logging", "stop_logging", "download_logs", "clear_buffer"}
      [] d = "keystroke_injector" ->
            {"inject_payload", "load_script", "stop_injection", "list_payloads"}
      [] d = "ethernet_tap" ->
            {"start_capture", "stop_capture", "download_pcap", "monitor_mode"}
      [] OTHER ->
            {"start_ap", "stop_ap", "view_clients", "deauth_clients", "clone_network"}

\* Ids of the device pages of the document
PageIds == {DeviceId(d) : d \in DeviceTypes}

InitialDeviceData ==
    [d \in DeviceTypes |->
        [id |-> DeviceId(d), endpoint |-> DeviceEndpoint(d), status |-> "offline",
         instances |-> <<>>, lastSeen |-> Null,
         capabilities |-> DeviceCapabilities(d)]]

----------------------------------------------------------------------------
(* What the server may answer *)

\* device_info of a response: the keys it carries and their values.
NoInfo == [keys |-> {}, status |-> Absent]

InfoStatusOnline == [keys |-> {"status"}, status |-> "online"]

\* Bodies of a 2xx status response.  A missing instances member and an empty
\* one are the same to the client (instances || []), so one stands for both.
StatusBodies ==
    { [status |-> "online", last_seen |-> "t1", instances |-> <<"i1">>,
       device_info |-> NoInfo, error |-> Absent],
      [status |-> Absent, last_seen |-> Absent, instances |-> <<"i1", "i2">>,
       device_info |-> NoInfo, error |-> Absent],
      [status |-> "offline", last_seen |-> Absent, instances |-> <<>>,
       device_info |-> InfoStatusOnline, error |-> Absent] }

\* How a request can end.  "badjson" is a 2xx response whose body does not
\* parse; "timeout" is the abort of the request by its AbortController.
ProbeOutcomes == {"ok", "badjson", "http_error", "network_error", "timeout"}

StatusFailures == {"http_error", "network_error"}

\* Ends of a command request.  "ok" is a 2xx response whose body is a JSON
\* object without the members handleCommandResponse looks for,
\* "ok_download" one whose body has a download_url, "ok_null" one whose
\* body is the JSON value null.
CommandOutcomes ==
    {"ok", "ok_download", "ok_null", "badjson", "http_error", "network_error"}

\* Commands of the buttons the operator clicks
Commands == {"start_logging", "refresh", "download_logs"}

\* parameters of a command request: {} by default, {instanceId, action} from
\* controlInstance
NoParameters == <<>>

InstanceIds == {"i1"}

InstanceActions == {"stop"}

----------------------------------------------------------------------------
(* JavaScript helpers *)

\* a || b for a value that is either missing or a non-empty string
JsOr(a, b) == IF a = Absent THEN b ELSE a

\* Object.assign(target, source) on the members the registry keeps
ObjectAssign(target, source) ==
    [f \in DOMAIN target |-> IF f \in source.keys THEN source[f] ELSE target[f]]

Entry(kind, type, dev) == [kind |-> kind, type |-> type, dev |-> dev]

\* A log that keeps the oldest entries when it is full.
addLogKeepsOldest(lg, e) ==
    LET unshifted == <<e>> \o lg
    IN  IF Len(unshifted) > logMaxEntries
        THEN SubSeq(unshifted, 2, logMaxEntries + 1)
        ELSE unshifted

addLog(lg, e) ==
    LET unshifted == <<e>> \o lg
    IN  IF Len(unshifted) > logMaxEntries
        THEN SubSeq(unshifted, 1, logMaxEntries)
        ELSE unshifted

showNotification(lg, e) == addLog(lg, e)

EmptyBody ==
    [status |-> Absent, last_seen |-> Absent, instances |-> <<>>,
     device_info |-> NoInfo, error |-> Absent]

\* One element of the results array of getAllDevicesStatus, or its promise
\* while the request is still pending.
PendingResult == [state |-> "pending", success |-> FALSE, body |-> EmptyBody]

Done(success, body) == [state |-> "done", success |-> success, body |-> body]

NoResults == [d \in DeviceTypes |-> PendingResult]

Ret(op, dev, cmd, outcome, value, results) ==
    [op |-> op, dev |-> dev, cmd |-> cmd, outcome |-> outcome, value |-> value,
     results |-> results]

BagAdd(b, d) == [b EXCEPT ![d] = @ + 1]
BagDel(b, d) == [b EXCEPT ![d] = @ - 1]

RECURSIVE SumOver(_, _)
SumOver(b, S) ==
    IF S = {} THEN 0
    ELSE LET d == CHOOSE x \in S : TRUE IN b[d] + SumOver(b, S \ {d})

RemoveAt(s, i) == SubSeq(s, 1, i - 1) \o SubSeq(s, i + 1, Len(s))

\* A health request checkMasterConnection has just sent
Probe(caller) == [caller |-> caller, overtaken |-> FALSE]

\* The health requests left in flight when request i has ended: those sent
\* before it have been overtaken.
ProbeEnds(ps, i) ==
    [j \in 1..(Len(ps) - 1) |->
        IF j < i THEN [ps[j] EXCEPT !.overtaken = TRUE] ELSE ps[j + 1]]

InFlight ==
    Len(probes) + Len(syncs) + Len(commands)
        + SumOver(refreshTimers, DeviceTypes) + SumOver(refreshes, DeviceTypes)
        + SumOver(details, DeviceTypes)

CanLog == Len(logs) < MaxLogged

----------------------------------------------------------------------------
(* State after the DOMContentLoaded handler has run initializeApplication: *)
(* two log entries, the first health request in flight, no timer yet.      *)

Init ==
    /\ masterStatus = "disconnected"
    /\ deviceData = InitialDeviceData
    /\ logs = addLog(addLog(<<>>, Entry("initializing", "info", "-")),
                     Entry("ready", "success", "-"))
    /\ updateTimer = 0
    /\ timers = {}
    /\ probes = <<Probe("init")>>
    /\ syncs = <<>>
    /\ refreshTimers = [d \in DeviceTypes |-> 0]
    /\ refreshes = [d \in DeviceTypes |-> 0]
    /\ commands = <<>>
    /\ loading = {}
    /\ details = [d \in DeviceTypes |-> 0]
    /\ lastFetched = [d \in DeviceTypes |-> <<>>]
    /\ ret = Ret("initializeApplication", "-", "-", "-", "undefined", NoResults)

----------------------------------------------------------------------------
(* Activity log *)

\* A clearLogs that forgets to empty the log.
clearLogsKeeps ==
    /\ logs' = addLog(logs, Entry("logs_cleared", "info", "-"))
    /\ ret' = Ret("clearLogs", "-", "-", "-", "undefined", NoResults)
    /\ UNCHANGED details
    /\ UNCHANGED <<masterStatus, deviceData, updateTimer, timers, probes, syncs,
                   refreshTimers, refreshes, commands, loading, lastFetched>>

\* The messages of the callers of addLog outside the handlers above, with
\* their severities: each call takes the one after the message on top of
\* the log, so that neighbours differ and the log is a window on the cycle.
Notes ==
    <<Entry("note1", "info", "-"), Entry("note2", "error", "-"),
      Entry("note3", "info", "-"), Entry("note4", "warning", "-"),
      Entry("note5", "success", "-"), Entry("note6", "info", "-"),
      Entry("note7", "error", "-")>>

NextNote(lg) ==
    IF lg # <<>> /\ \E k \in 1..Len(Notes) : Notes[k] = lg[1]
    THEN Notes[((CHOOSE k \in 1..Len(Notes) : Notes[k] = lg[1]) % Len(Notes)) + 1]
    ELSE Notes[1]

\* addLog(message, type) called with the log at any length
addLogCall ==
    /\ logs' = addLog(logs, NextNote(logs))
    /\ ret' = Ret("addLog", "-", NextNote(logs).kind, "-", "undefined",
                  NoResults)
    /\ UNCHANGED details
    /\ UNCHANGED <<masterStatus, deviceData, updateTimer, timers, probes, syncs,
                   refreshTimers, refreshes, commands, loading, lastFetched>>

clearLogs ==
    /\ logs' = addLog(<<>>, Entry("logs_cleared", "info", "-"))
    /\ ret' = Ret("clearLogs", "-", "-", "-", "undefined", NoResults)
    /\ UNCHANGED details
    /\ UNCHANGED <<masterStatus, deviceData, updateTimer, timers, probes, syncs,
                   refreshTimers, refreshes, commands, loading, lastFetched>>

----------------------------------------------------------------------------
(* Poll scheduler *)

\* The handle setInterval returns: one no active interval has.
NewHandle(active) ==
    CHOOSE n \in 1..(Cardinality(active) + 1) :
        n \notin active /\ \A m \in 1..(n - 1) : m \in active

\* A start that leaves the running interval alone.
ClearExistingSkipped(handle, active) == active

\* clearInterval(updateTimer) of startPeriodicUpdates, when a timer is set
ClearExisting(handle, active) ==
    IF handle # 0 THEN active \ {handle} ELSE active

\* startPeriodicUpdates(): the timer handle, the active intervals and the
\* log it leaves.
StartEffect(handle, active, lg) ==
    LET cleared == ClearExisting(handle, active)
        h == NewHandle(cleared)
    IN  [updateTimer |-> h, timers |-> cleared \cup {h},
         logs |-> addLog(lg, Entry("updates_started", "info", "-"))]

\* A stop that writes its entry whether or not a timer was set.
StopEffectAlwaysLogs(handle, active, lg) ==
    [updateTimer |-> 0, timers |-> active \ {handle},
     logs |-> addLog(lg, Entry("updates_stopped", "warning", "-"))]

\* A stop that forgets the handle without clearing the interval.
StopEffectKeepsInterval(handle, active, lg) ==
    IF handle # 0
    THEN [updateTimer |-> 0, timers |-> active,
          logs |-> addLog(lg, Entry("updates_stopped", "warning", "-"))]
    ELSE [updateTimer |-> handle, timers |-> active, logs |-> lg]

\* stopPeriodicUpdates()
StopEffect(handle, active, lg) ==
    IF handle # 0
    THEN [updateTimer |-> 0, timers |-> active \ {handle},
          logs |-> addLog(lg, Entry("updates_stopped", "warning", "-"))]
    ELSE [updateTimer |-> handle, timers |-> active, logs |-> lg]

startPeriodicUpdates ==
    /\ CanLog
    /\ LET e == StartEffect(updateTimer, timers, logs)
       IN  /\ updateTimer' = e.updateTimer
           /\ timers' = e.timers
           /\ logs' = e.logs
    /\ ret' = Ret("startPeriodicUpdates", "-", "-", "-", "undefined", NoResults)
    /\ UNCHANGED details
    /\ UNCHANGED <<masterStatus, deviceData, probes, syncs, refreshTimers,
                   refreshes, commands, loading, lastFetched>>

stopPeriodicUpdates ==
    /\ CanLog
    /\ LET e == StopEffect(updateTimer, timers, logs)
       IN  /\ updateTimer' = e.updateTimer
           /\ timers' = e.timers
           /\ logs' = e.logs
    /\ ret' = Ret("stopPeriodicUpdates", "-", "-", "-", "undefined", NoResults)
    /\ UNCHANGED details
    /\ UNCHANGED <<masterStatus, deviceData, probes, syncs, refreshTimers,
                   refreshes, commands, loading, lastFetched>>

\* The interval callback up to its first await: checkMasterConnection()
\* sends the health request.
Tick(t) ==
    /\ t \in timers
    /\ CanLog
    /\ InFlight < MaxInFlight
    /\ probes' = Append(probes, Probe("tick"))
    /\ ret' = Ret("tick", "-", "-", "requested", "pending", NoResults)
    /\ UNCHANGED details
    /\ UNCHANGED <<masterStatus, deviceData, logs, updateTimer, timers, syncs,
                   refreshTimers, refreshes, commands, loading, lastFetched>>

----------------------------------------------------------------------------
(* Connectivity prober *)

\* A prober that looks at response.ok alone and never reads the body.
ProbeSucceedsOnAny2xx(o) == o \in {"ok", "badjson"}

\* Whether checkMasterConnection takes its success branch: response.ok and
\* response.json() resolves.
ProbeSucceeds(o) == o = "ok"

\* masterStatus as checkMasterConnection leaves it
ProbeStatus(o) == IF ProbeSucceeds(o) THEN "connected" ELSE "disconnected"

\* The log entry checkMasterConnection adds when it ends.
ProbeLog(lg, o) ==
    IF ProbeSucceeds(o)
    THEN addLog(lg, Entry("master_established", "success", "-"))
    ELSE addLog(lg, Entry("master_failed", "error", "-"))

\* The first health request ends; the .then of initializeApplication starts
\* the scheduler whatever the probe returned.
InitProbeDone(i, o) ==
    /\ i \in 1..Len(probes)
    /\ probes[i].caller = "init"
    /\ CanLog
    /\ masterStatus' = ProbeStatus(o)
    /\ probes' = ProbeEnds(probes, i)
    /\ LET e == StartEffect(updateTimer, timers, ProbeLog(logs, o))
       IN  /\ updateTimer' = e.updateTimer
           /\ timers' = e.timers
           /\ logs' = e.logs
    /\ ret' = Ret("checkMasterConnection", "init", "-", o,
                  IF ProbeSucceeds(o) THEN "true" ELSE "false", NoResults)
    /\ UNCHANGED details
    /\ UNCHANGED <<deviceData, syncs, refreshTimers, refreshes, commands,
                   loading, lastFetched>>

\* The status request getAllDevicesStatus sends for a device, pending: the
\* endpoint it goes to is the one the record holds.
StatusRequest(device) ==
    [state |-> "pending", success |-> FALSE, body |-> EmptyBody,
     url |-> <<device.endpoint, "/status">>]

\* A sync that asks the devices that are online only.
StatusRequestsOnlineOnly(dd) ==
    [d \in DOMAIN dd |->
        IF dd[d].status = "online" THEN StatusRequest(dd[d])
        ELSE Done(FALSE, EmptyBody)]

\* Object.entries(deviceData).map(...): every request is sent before the
\* await of Promise.all.
StatusRequests(dd) == [d \in DOMAIN dd |-> StatusRequest(dd[d])]

\* A sync that gave up for good.
SyncAllStartNever(status, dd, running) == running

\* A sync without the check of masterStatus.
SyncAllStartUnguarded(status, dd, running) ==
    Append(running, StatusRequests(dd))

\* getAllDevicesStatus() up to its await: nothing when not connected, else
\* one status request per device.
SyncAllStart(status, dd, running) ==
    IF status # "connected" THEN running
    ELSE Append(running, StatusRequests(dd))

\* An interval callback that syncs whatever its probe returned.
TickSyncUnconditional(masterConnected, status, dd, running) ==
    Append(running, StatusRequests(dd))

\* The interval callback after its await of checkMasterConnection():
\* getAllDevicesStatus() when the probe returned true.
TickSync(masterConnected, status, dd, running) ==
    IF masterConnected THEN SyncAllStart(status, dd, running) ELSE running

\* getAllDevicesStatus() called by itself, outside the interval callback.
getAllDevicesStatus ==
    /\ CanLog
    /\ masterStatus = "connected"
          => InFlight < MaxInFlight /\ Len(syncs) < MaxSyncs
    /\ syncs' = SyncAllStart(masterStatus, deviceData, syncs)
    /\ ret' = IF masterStatus # "connected"
              THEN Ret("getAllDevicesStatusCall", "-", "-", "skipped", "false",
                       NoResults)
              ELSE Ret("getAllDevicesStatusCall", "-", "-", "requested",
                       "pending", NoResults)
    /\ UNCHANGED details
    /\ UNCHANGED <<masterStatus, deviceData, logs, updateTimer, timers, probes,
                   refreshTimers, refreshes, commands, loading, lastFetched>>

\* The health request of a tick ends; on true the callback goes on into
\* getAllDevicesStatus.
TickProbeDone(i, o) ==
    /\ i \in 1..Len(probes)
    /\ probes[i].caller = "tick"
    /\ CanLog
    /\ ProbeSucceeds(o) => Len(syncs) < MaxSyncs
    /\ masterStatus' = ProbeStatus(o)
    /\ probes' = ProbeEnds(probes, i)
    /\ logs' = ProbeLog(logs, o)
    /\ syncs' = TickSync(ProbeSucceeds(o), masterStatus', deviceData, syncs)
    /\ ret' = Ret("checkMasterConnection", "tick", "-", o,
                  IF ProbeSucceeds(o) THEN "true" ELSE "false", NoResults)
    /\ UNCHANGED details
    /\ UNCHANGED <<deviceData, updateTimer, timers, refreshTimers, refreshes,
                   commands, loading, lastFetched>>

----------------------------------------------------------------------------
(* Status synchroniser *)

\* What one status request of getAllDevicesStatus resolves to.
StatusResult(o, body) ==
    IF o = "ok"
    THEN Done(TRUE, body)
    ELSE Done(FALSE, [EmptyBody EXCEPT !.status = "offline", !.error = "reason"])

\* status, lastSeen and instances as both syncs write them from a body
UpdateDeviceRecord(device, body) ==
    [device EXCEPT !.status = JsOr(body.status, "offline"),
                   !.lastSeen = JsOr(body.last_seen, device.lastSeen),
                   !.instances = body.instances]

\* Severity of a status-change entry
ChangeSeverity(status) == IF status = "online" THEN "success" ELSE "warning"

\* The status-change entry of a sync, when the status differs from the old
LogStatusChange(lg, kind, d, oldStatus, newStatus) ==
    IF oldStatus # newStatus
    THEN addLog(lg, Entry(kind, ChangeSeverity(newStatus), d))
    ELSE lg

\* The device before d in the registry, d itself for the first.
Preceding(d) ==
    IF Position(d) = 1 THEN d ELSE DeviceOrder[Position(d) - 1]

\* An update round in which a failed request also resets the record of the
\* device before it: the failure of one device leaking into another.
ApplyResultLeaking(acc, d, r) ==
    LET updated == UpdateDeviceRecord(acc.deviceData[d], r.body)
        own == [acc.deviceData EXCEPT ![d] = ObjectAssign(updated, r.body.device_info)]
    IN  [deviceData |->
            IF r.success THEN own
            ELSE [own EXCEPT ![Preceding(d)].status = "offline",
                             ![Preceding(d)].instances = <<>>],
         logs |-> LogStatusChange(acc.logs, "status_changed", d,
                                  acc.deviceData[d].status, updated.status)]

\* One round of the results.forEach of getAllDevicesStatus
ApplyResult(acc, d, r) ==
    LET updated == UpdateDeviceRecord(acc.deviceData[d], r.body)
    IN  [deviceData |->
            [acc.deviceData EXCEPT ![d] = ObjectAssign(updated, r.body.device_info)],
         logs |-> LogStatusChange(acc.logs, "status_changed", d,
                                  acc.deviceData[d].status, updated.status)]

RECURSIVE ApplyFrom(_, _, _)
ApplyFrom(acc, results, k) ==
    IF k > Len(DeviceOrder) THEN acc
    ELSE ApplyFrom(ApplyResult(acc, DeviceOrder[k], results[DeviceOrder[k]]),
                   results, k + 1)

\* An update loop that forgets every device whose request failed.
ApplyResultsDropsFailed(dd, lg, results) ==
    LET applied == ApplyFrom([deviceData |-> dd, logs |-> lg], results, 1)
    IN  [deviceData |-> [d \in {x \in DeviceTypes : results[x].success}
                           |-> applied.deviceData[d]],
         logs |-> applied.logs]

\* results.forEach(...) over the whole array, in the order of the registry
ApplyResults(dd, lg, results) ==
    ApplyFrom([deviceData |-> dd, logs |-> lg], results, 1)

\* An update loop that runs as soon as one status request has resolved.
AllResolvedOnFirst(results) == \E d \in DeviceTypes : results[d].state = "done"

AllResolved(results) == \A d \in DeviceTypes : results[d].state = "done"

\* One status request of a running getAllDevicesStatus resolves.  When it is
\* the last one, Promise.all resolves and the update loop runs.
StatusResolved(i, d, o, body) ==
    /\ i \in 1..Len(syncs)
    /\ syncs[i][d].state = "pending"
    /\ CanLog
    /\ o = "ok" => d \in Responsive
    /\ d \notin Responsive => \A e \in SilentBefore(d) : syncs[i][e].state = "done"
    /\ LET results == [syncs[i] EXCEPT ![d] = StatusResult(o, body)]
       IN  IF AllResolved(results)
           THEN LET e == ApplyResults(deviceData, logs, results)
                IN  /\ syncs' = RemoveAt(syncs, i)
                    /\ deviceData' = e.deviceData
                    /\ logs' = e.logs
                    /\ ret' = Ret("getAllDevicesStatus", "-", "-", "-", "true", results)
           ELSE /\ syncs' = [syncs EXCEPT ![i] = results]
                /\ ret' = Ret("statusResolved", "-", "-", "-", "pending", NoResults)
                /\ UNCHANGED <<deviceData, logs>>
    /\ lastFetched' = IF o = "ok" THEN [lastFetched EXCEPT ![d] = body.instances]
                      ELSE lastFetched
    /\ UNCHANGED details
    /\ UNCHANGED <<masterStatus, updateTimer, timers, probes, refreshTimers,
                   refreshes, commands, loading>>

\* Whether refreshSingleDevice sends its request: it does not look at
\* masterStatus.
RefreshSends(status) == TRUE

\* The timer a command set fires: refreshSingleDevice(d) up to its await.
RefreshStart(d) ==
    /\ refreshTimers[d] > 0
    /\ CanLog
    /\ refreshTimers' = BagDel(refreshTimers, d)
    /\ refreshes' = IF RefreshSends(masterStatus) THEN BagAdd(refreshes, d)
                   ELSE refreshes
    /\ ret' = Ret("refreshSingleDevice", d, "-",
                  IF RefreshSends(masterStatus) THEN "requested" ELSE "skipped",
                  IF RefreshSends(masterStatus) THEN "pending" ELSE "false",
                  NoResults)
    /\ UNCHANGED details
    /\ UNCHANGED <<masterStatus, deviceData, logs, updateTimer, timers, probes,
                   syncs, commands, loading, lastFetched>>

\* The device record refreshSingleDevice leaves when its request has ended.
RefreshRecord(device, o, body) ==
    IF o = "ok" THEN UpdateDeviceRecord(device, body) ELSE device

\* What refreshSingleDevice returns: true from the ok branch, nothing when
\* the response is not ok, false from the catch.
RefreshValue(o) ==
    CASE o = "ok" -> "true"
      [] o = "http_error" -> "undefined"
      [] OTHER -> "false"

\* The status request of refreshSingleDevice(d) ends.
RefreshDone(d, o, body) ==
    /\ refreshes[d] > 0
    /\ CanLog
    /\ o = "ok" => d \in Responsive
    /\ refreshes' = BagDel(refreshes, d)
    /\ LET updated == RefreshRecord(deviceData[d], o, body)
       IN  /\ deviceData' = [deviceData EXCEPT ![d] = updated]
           /\ logs' = LogStatusChange(logs, "status_updated", d,
                                      deviceData[d].status, updated.status)
    /\ lastFetched' = IF o = "ok" THEN [lastFetched EXCEPT ![d] = body.instances]
                      ELSE lastFetched
    /\ ret' = Ret("refreshSingleDevice", d, "-", o, RefreshValue(o),
                  [NoResults EXCEPT ![d] = StatusResult(o, body)])
    /\ UNCHANGED details
    /\ UNCHANGED <<masterStatus, updateTimer, timers, probes, syncs,
                   refreshTimers, commands, loading>>

----------------------------------------------------------------------------
(* Details loader *)

\* device_info of a details response that names another page and another
\* endpoint for the device
InfoMovesDevice ==
    [keys |-> {"id", "endpoint"}, id |-> "device9", endpoint |-> "/elsewhere"]

\* Bodies of a 2xx details response; members tells which of the members
\* updateDeviceDisplay reads the body has.
DetailsBodies ==
    { [members |-> {"instances"}, device_info |-> NoInfo,
       instances |-> <<"i1">>],
      [members |-> {"device_info"}, device_info |-> InfoMovesDevice,
       instances |-> <<>>] }

NoDetails == [members |-> {}, device_info |-> NoInfo, instances |-> <<>>]

\* Ends of a details request that are not a 2xx response with a JSON body
DetailsFailures == {"badjson", "http_error", "network_error"}

\* The early return of loadDeviceDetails: no such device, or not online
DetailsSkipped(dd, d) == d \notin DOMAIN dd \/ dd[d].status # "online"

\* loadDeviceDetails(d) up to its await
loadDeviceDetails(d) ==
    /\ CanLog
    /\ IF DetailsSkipped(deviceData, d)
       THEN /\ ret' = Ret("loadDeviceDetails", d, "-", "skipped", "false",
                          NoResults)
            /\ UNCHANGED details
       ELSE /\ InFlight < MaxInFlight
            /\ details' = BagAdd(details, d)
            /\ ret' = Ret("loadDeviceDetails", d, "-", "requested", "pending",
                          NoResults)
    /\ UNCHANGED <<masterStatus, deviceData, logs, updateTimer, timers, probes,
                   syncs, refreshTimers, refreshes, commands, loading,
                   lastFetched>>

\* updateDeviceDisplay(deviceType, details): nothing without the page of
\* the device, else device_info is copied over the record and instances,
\* when the response has them, replace those of the record.
updateDeviceDisplay(device, body) ==
    IF device.id \notin PageIds THEN device
    ELSE LET merged == IF "device_info" \in body.members
                       THEN ObjectAssign(device, body.device_info)
                       ELSE device
         IN  IF "instances" \in body.members
             THEN [merged EXCEPT !.instances = body.instances]
             ELSE merged

\* What loadDeviceDetails returns: true from the ok branch, nothing when
\* the response is not ok, false from the catch.
DetailsValue(o) ==
    CASE o = "ok" -> "true"
      [] o = "http_error" -> "undefined"
      [] OTHER -> "false"

\* A details load that takes a network error for the loss of the master.
LoadDetailsDoneDisconnects(d, o, body) ==
    /\ details[d] > 0
    /\ CanLog
    /\ details' = BagDel(details, d)
    /\ deviceData' = IF o = "ok"
                     THEN [deviceData EXCEPT
                              ![d] = updateDeviceDisplay(deviceData[d], body)]
                     ELSE deviceData
    /\ masterStatus' = IF o = "network_error" THEN "disconnected"
                       ELSE masterStatus
    /\ ret' = Ret("loadDeviceDetails", d, "-", o, DetailsValue(o), NoResults)
    /\ UNCHANGED <<logs, updateTimer, timers, probes, syncs, refreshTimers,
                   refreshes, commands, loading, lastFetched>>

\* The details request of loadDeviceDetails(d) ends.
LoadDetailsDone(d, o, body) ==
    /\ details[d] > 0
    /\ CanLog
    /\ details' = BagDel(details, d)
    /\ deviceData' = IF o = "ok"
                     THEN [deviceData EXCEPT
                              ![d] = updateDeviceDisplay(deviceData[d], body)]
                     ELSE deviceData
    /\ ret' = Ret("loadDeviceDetails", d, "-", o, DetailsValue(o), NoResults)
    /\ UNCHANGED <<masterStatus, logs, updateTimer, timers, probes, syncs,
                   refreshTimers, refreshes, commands, loading, lastFetched>>

----------------------------------------------------------------------------
(* Command dispatcher *)

\* Commands sendDeviceCommand sends whatever the device's status
StatusIndependent == {"refresh", "reconnect"}

\* First early return of sendDeviceCommand
NotConnected(status) == status # "connected"

\* Second early return: no such key in deviceData
NoSuchDevice(d) == d \notin DeviceTypes

\* A status check with the allowlist turned round: it stops the commands
\* of the allowlist and lets the others through.
DeviceOfflineInverted(device, c) ==
    device.status # "online" /\ c \in StatusIndependent

\* A status check without the allowlist.
DeviceOfflineNoAllowlist(device, c) == device.status # "online"

\* Third early return: the device is not online and the command needs it
DeviceOffline(device, c) ==
    device.status # "online" /\ c \notin StatusIndependent

\* A dispatcher that lets the commands of the allowlist past the connection
\* check as well.
PreconditionAllowlistFirst(d, c) ==
    CASE NoSuchDevice(d) -> "UnknownDevice"
      [] c \in StatusIndependent -> "dispatched"
      [] NotConnected(masterStatus) -> "NotConnected"
      [] DeviceOffline(deviceData[d], c) -> "DeviceOffline"
      [] OTHER -> "dispatched"

\* Which way sendDeviceCommand(d, c) goes before it sends anything
Precondition(d, c) ==
    CASE NotConnected(masterStatus) -> "NotConnected"
      [] NoSuchDevice(d) -> "UnknownDevice"
      [] DeviceOffline(deviceData[d], c) -> "DeviceOffline"
      [] OTHER -> "dispatched"

\* The log entries of each early return
RejectLog(lg, why, d) ==
    CASE why = "NotConnected" ->
            showNotification(addLog(lg, Entry("cmd_not_connected", "error", "-")),
                             Entry("notify_not_connected", "error", "-"))
      [] why = "UnknownDevice" ->
            addLog(lg, Entry("unknown_device", "error", d))
      [] OTHER ->
            showNotification(addLog(lg, Entry("cmd_device_offline", "warning", d)),
                             Entry("notify_device_offline", "warning", d))

\* classList.add on the page document.getElementById(id) finds
AddLoading(marked, id) == IF id \in PageIds THEN marked \cup {id} ELSE marked

\* A finally block that leaves the mark where it is.
RemoveLoadingSkipped(marked, id) == marked

\* classList.remove in the finally block
RemoveLoading(marked, id) == marked \ {id}

\* sendDeviceCommand(d, c, parameters) up to its await, called by itself
\* or awaited by controlInstance (via): an early return, or the 'Sending'
\* entry, the loading mark and the command request.  controlInstance
\* returns nothing, whatever the call it awaits returns.
SendCommand(d, c, parameters, via) ==
    /\ CanLog
    /\ LET why == Precondition(d, c)
       IN  IF why # "dispatched"
           THEN /\ logs' = RejectLog(logs, why, d)
                /\ ret' = Ret(via, d, c, why,
                              IF via = "controlInstance" THEN "undefined"
                              ELSE "false",
                              NoResults)
                /\ UNCHANGED <<commands, loading>>
           ELSE /\ InFlight < MaxInFlight
                /\ logs' = addLog(logs, Entry("cmd_sending", "info", d))
                /\ loading' = AddLoading(loading, deviceData[d].id)
                /\ commands' = Append(commands,
                                      [dev |-> d, cmd |-> c,
                                       parameters |-> parameters, via |-> via])
                /\ ret' = Ret(via, d, c, why, "pending", NoResults)
    /\ UNCHANGED details
    /\ UNCHANGED <<masterStatus, deviceData, updateTimer, timers, probes, syncs,
                   refreshTimers, refreshes, lastFetched>>

\* A button of a device page
sendDeviceCommand(d, c) == SendCommand(d, c, NoParameters, "sendDeviceCommand")

\* A button of an instance
controlInstance(d, instanceId, action) ==
    SendCommand(d, "control_instance", <<instanceId, action>>, "controlInstance")

\* The request ended with a 2xx response whose body parsed
OkParsed == {"ok", "ok_download", "ok_null"}

DownloadCommands == {"download_logs", "download_pcap"}

\* Commands with a case in the switch of handleCommandResponse: each reads a
\* member of result, which throws when result is null
SwitchCases == DownloadCommands \cup {"view_clients", "list_payloads"}

HandlerThrows(c, o) == c \in SwitchCases /\ o = "ok_null"

\* Whether the request ends by the return of the success branch
CommandSucceeds(c, o) == o \in OkParsed /\ ~HandlerThrows(c, o)

\* handleCommandResponse when it does not throw
handleCommandResponse(lg, d, c, o) ==
    IF c \in DownloadCommands /\ o = "ok_download"
    THEN addLog(lg, Entry("download_started", "success", d))
    ELSE lg

\* The entries of the catch block
FailureLog(lg, d) ==
    showNotification(addLog(lg, Entry("cmd_failed", "error", d)),
                     Entry("notify_failed", "error", d))

\* A catch block that says nothing.
CommandLogQuietCatch(lg, d, c, o) ==
    IF o \in OkParsed
    THEN showNotification(addLog(lg, Entry("cmd_success", "success", d)),
                          Entry("notify_sent", "success", d))
    ELSE lg

\* The log a finished command request leaves
CommandLog(lg, d, c, o) ==
    IF o \in OkParsed
    THEN LET said == showNotification(
                         addLog(lg, Entry("cmd_success", "success", d)),
                         Entry("notify_sent", "success", d))
         IN  IF HandlerThrows(c, o) THEN FailureLog(said, d)
             ELSE handleCommandResponse(said, d, c, o)
    ELSE FailureLog(lg, d)

\* What sendDeviceCommand returns when its request has ended
CommandValue(c, o) ==
    CASE ~CommandSucceeds(c, o) -> "false"
      [] o = "ok_null" -> "null"
      [] OTHER -> "result"

\* A catch block that also writes the failure into the device record.
CommandDoneMarksOffline(i, o) ==
    /\ i \in 1..Len(commands)
    /\ CanLog
    /\ LET d == commands[i].dev
           c == commands[i].cmd
           via == commands[i].via
       IN  /\ logs' = CommandLog(logs, d, c, o)
           /\ refreshTimers' = IF CommandSucceeds(c, o)
                               THEN BagAdd(refreshTimers, d)
                               ELSE refreshTimers
           /\ deviceData' = IF CommandSucceeds(c, o) THEN deviceData
                            ELSE [deviceData EXCEPT ![d].status = "offline",
                                                    ![d].instances = <<>>]
           /\ loading' = RemoveLoading(loading, deviceData[d].id)
           /\ ret' = Ret(via, d, c, o,
                         IF via = "controlInstance" THEN "undefined"
                         ELSE CommandValue(c, o),
                         NoResults)
    /\ commands' = RemoveAt(commands, i)
    /\ UNCHANGED details
    /\ UNCHANGED <<masterStatus, updateTimer, timers, probes, syncs,
                   refreshes, lastFetched>>

\* The command request i ends: success or catch, then finally.
CommandDone(i, o) ==
    /\ i \in 1..Len(commands)
    /\ CanLog
    /\ LET d == commands[i].dev
           c == commands[i].cmd
           via == commands[i].via
       IN  /\ logs' = CommandLog(logs, d, c, o)
           /\ refreshTimers' = IF CommandSucceeds(c, o)
                               THEN BagAdd(refreshTimers, d)
                               ELSE refreshTimers
           /\ loading' = RemoveLoading(loading, deviceData[d].id)
           /\ ret' = Ret(via, d, c, o,
                         IF via = "controlInstance" THEN "undefined"
                         ELSE CommandValue(c, o),
                         NoResults)
    /\ commands' = RemoveAt(commands, i)
    /\ UNCHANGED details
    /\ UNCHANGED <<masterStatus, deviceData, updateTimer, timers, probes, syncs,
                   refreshes, lastFetched>>

----------------------------------------------------------------------------

\* The interval callback and the first probe, to the end of the sync
Poll ==
    \/ \E t \in timers : Tick(t)
    \/ \E i \in 1..Len(probes), o \in ProbeOutcomes : InitProbeDone(i, o)
    \/ \E i \in 1..Len(probes), o \in ProbeOutcomes : TickProbeDone(i, o)
    \/ \E i \in 1..Len(syncs), d \in DeviceTypes :
          \/ \E body \in StatusBodies : StatusResolved(i, d, "ok", body)
          \/ \E o \in StatusFailures : StatusResolved(i, d, o, EmptyBody)

\* A command from its call to the refresh it schedules
Dispatch ==
    \/ \E d \in CommandTargets, c \in Commands : sendDeviceCommand(d, c)
    \/ \E d \in CommandTargets, n \in InstanceIds, a \in InstanceActions :
          controlInstance(d, n, a)
    \/ \E i \in 1..Len(commands), o \in CommandOutcomes : CommandDone(i, o)
    \/ \E d \in DeviceTypes : RefreshStart(d)
    \/ \E d \in DeviceTypes :
          \/ \E body \in StatusBodies : RefreshDone(d, "ok", body)
          \/ \E o \in StatusFailures : RefreshDone(d, o, EmptyBody)

\* A device page is opened: its details are loaded
Details ==
    \/ \E d \in CommandTargets : loadDeviceDetails(d)
    \/ \E d \in DeviceTypes :
          \/ \E body \in DetailsBodies : LoadDetailsDone(d, "ok", body)
          \/ \E o \in DetailsFailures : LoadDetailsDone(d, o, NoDetails)

\* The master stops answering once the page has loaded: every probe of a
\* tick fails.
PollMasterDown ==
    \/ \E t \in timers : Tick(t)
    \/ \E i \in 1..Len(probes), o \in ProbeOutcomes : InitProbeDone(i, o)
    \/ \E i \in 1..Len(probes), o \in ProbeOutcomes \ {"ok"} : TickProbeDone(i, o)

Next ==
    \/ clearLogs
    \/ startPeriodicUpdates
    \/ stopPeriodicUpdates
    \/ getAllDevicesStatus
    \/ Poll
    \/ Dispatch
    \/ Details

Spec == Init /\ [][Next]_vars

\* The page left alone: only the scheduler, the prober and the synchroniser
\* run, and the operator clears the log.
NextPoll ==
    \/ clearLogs
    \/ getAllDevicesStatus
    \/ Poll

SpecPoll == Init /\ [][NextPoll]_vars

\* The operator's commands while the master is reachable at load time only.
NextCommand ==
    \/ clearLogs
    \/ PollMasterDown
    \/ Dispatch

SpecCommand == Init /\ [][NextCommand]_vars

\* setTimeout(() => controller.abort(), CONFIG.timeout) fires: the only
\* requests with an AbortController are the health requests.
ProbeAborted ==
    \E i \in 1..Len(probes) :
        InitProbeDone(i, "timeout") \/ TickProbeDone(i, "timeout")

\* The page left alone, with the timers of the browser firing: an abort
\* timer that is set fires, an interval that is active ticks.  Nothing
\* makes the server answer.
SpecDeadline ==
    /\ Init
    /\ [][NextPoll]_vars
    /\ WF_vars(ProbeAborted)
    /\ WF_vars(\E t \in timers : Tick(t))

\* Every handler of the page, one invocation at a time: a handler is
\* called only when none is suspended at an await or waiting for its timer.
NextSerial == Next /\ InFlight' <= 1

SpecSerial == Init /\ [][NextSerial]_vars

\* The log by itself, filled to its capacity and cleared.
NextLog ==
    \/ clearLogs
    \/ addLogCall

SpecLog == Init /\ [][NextLog]_vars

----------------------------------------------------------------------------
(* Vocabulary of the properties *)

\* The entries a step has put on top of the log
NewEntries(old, new) ==
    IF Len(new) > Len(old) THEN SubSeq(new, 1, Len(new) - Len(old)) ELSE <<>>

\* The step only added entries: the log before it is the tail of the log after
Extends(old, new) ==
    /\ Len(new) >= Len(old)
    /\ SubSeq(new, Len(new) - Len(old) + 1, Len(new)) = old

\* How many entries of a log satisfy a test
CountEntries(lg, Test(_)) == Cardinality({k \in 1..Len(lg) : Test(lg[k])})

\* Outcomes of the call of sendDeviceCommand, as against those of its request
CallOutcomes == {"NotConnected", "UnknownDevice", "DeviceOffline", "dispatched"}

\* Outcomes of the synchronous part of refreshSingleDevice
StartOutcomes == {"requested", "skipped"}

AboutMaster(e) == e.kind \in {"master_established", "master_failed"}

\* The three members of a device record a status sync writes
Synced(device) ==
    [status |-> device.status, instances |-> device.instances,
     lastSeen |-> device.lastSeen]

----------------------------------------------------------------------------
(* Command dispatch *)

\* C1: a call of sendDeviceCommand while masterStatus is not 'connected',
\* whatever the device type and the command (those of the allowlist
\* included), sends no request, returns false by the NotConnected return and
\* adds entries to the log.
C1_NotConnectedSendsNothing ==
    [][(ret'.op = "sendDeviceCommand" /\ ret'.outcome \in CallOutcomes
            /\ masterStatus = "disconnected")
        => /\ commands' = commands
           /\ InFlight' = InFlight
           /\ ret'.outcome = "NotConnected"
           /\ ret'.value = "false"
           /\ Extends(logs, logs')
           /\ Len(logs') > Len(logs)]_vars

\* A command of the allowlist has been refused for want of a connection.
C1_Witness ==
    /\ ret.op = "sendDeviceCommand"
    /\ ret.outcome = "NotConnected"
    /\ ret.cmd \in StatusIndependent
    /\ ret.dev \in DeviceTypes
    /\ masterStatus = "disconnected"
    /\ commands = <<>>

\* C2: a call of sendDeviceCommand while connected, for a device of the
\* registry whose status is not 'online' and with a command outside
\* {refresh, reconnect}, sends no request, returns false by the
\* DeviceOffline return and adds entries of severity warning to the log.
C2_OfflineDeviceSendsNothing ==
    [][(/\ ret'.op = "sendDeviceCommand"
        /\ ret'.outcome \in CallOutcomes
        /\ masterStatus = "connected"
        /\ ret'.dev \in DeviceTypes
        /\ deviceData[ret'.dev].status # "online"
        /\ ret'.cmd \notin StatusIndependent)
        => /\ commands' = commands
           /\ InFlight' = InFlight
           /\ ret'.outcome = "DeviceOffline"
           /\ ret'.value = "false"
           /\ Extends(logs, logs')
           /\ Len(logs') > Len(logs)
           /\ \A k \in 1..(Len(logs') - Len(logs)) :
                 logs'[k].type = "warning" /\ logs'[k].dev = ret'.dev]_vars

\* start_logging has been refused for an offline device while connected.
C2_Witness ==
    /\ ret.op = "sendDeviceCommand"
    /\ ret.outcome = "DeviceOffline"
    /\ ret.cmd = "start_logging"
    /\ masterStatus = "connected"
    /\ deviceData[ret.dev].status = "offline"
    /\ logs[1].type = "warning"

----------------------------------------------------------------------------
(* Connectivity probe *)

\* Responses with a 2xx status, whatever their body
TwoXX == {"ok", "badjson"}

\* C3, as amended: when the health request ends with a 2xx response whose
\* body parses as JSON, masterStatus becomes 'connected' and
\* checkMasterConnection returns true; on every other end of the request
\* (network error, non-2xx response, timeout abort, 2xx with a body that
\* does not parse) masterStatus becomes 'disconnected' and it returns false;
\* it never throws.
C3_ProbeSetsConnectionState ==
    [][ret'.op = "checkMasterConnection"
        => /\ ret'.value \in {"true", "false"}
           /\ IF ret'.outcome = "ok"
              THEN masterStatus' = "connected" /\ ret'.value = "true"
              ELSE masterStatus' = "disconnected" /\ ret'.value = "false"]_vars

\* A probe of a tick has ended well while the page was disconnected.
C3_Witness ==
    /\ ret.op = "checkMasterConnection"
    /\ ret.dev = "tick"
    /\ ret.outcome = "ok"
    /\ ret.value = "true"
    /\ masterStatus = "connected"

\* C3 as it is worded: every 2xx response makes masterStatus 'connected' and
\* the probe return true, every failure makes it 'disconnected' and the
\* probe return false.
C3_AsWorded ==
    [][ret'.op = "checkMasterConnection"
        => IF ret'.outcome \in TwoXX
           THEN masterStatus' = "connected" /\ ret'.value = "true"
           ELSE masterStatus' = "disconnected" /\ ret'.value = "false"]_vars

\* C4: over the probes of the poll ticks, an entry about the master
\* connection is added exactly when masterStatus changes, and exactly one; a
\* probe that leaves masterStatus as it was adds none.
C4_OneEntryPerTransition ==
    [][(ret'.op = "checkMasterConnection" /\ ret'.dev = "tick")
        => CountEntries(NewEntries(logs, logs'), AboutMaster)
              = IF masterStatus' # masterStatus THEN 1 ELSE 0]_vars

----------------------------------------------------------------------------
(* Status synchronisation *)

\* The status entries about device d among the entries of a step
StatusEntries(entries, d) ==
    {k \in 1..Len(entries) :
        /\ entries[k].kind \in {"status_changed", "status_updated"}
        /\ entries[k].dev = d}

\* C5: in every step, for every device, the status of the device changes
\* exactly when the step adds a status entry about it; there is one such
\* entry then, of severity success when the new status is online and warning
\* otherwise.
C5_StatusChangeLoggedOnce ==
    [][\A d \in DeviceTypes :
          LET added == NewEntries(logs, logs')
              about == StatusEntries(added, d)
          IN  IF deviceData'[d].status # deviceData[d].status
              THEN /\ Cardinality(about) = 1
                   /\ \A k \in about :
                         added[k].type = ChangeSeverity(deviceData'[d].status)
              ELSE about = {}]_vars

\* C6: when a sync has written the record of a device from a response, by
\* getAllDevicesStatus or by refreshSingleDevice, the instances of the
\* device are the instance list of the newest response received for it.
C6_InstancesAreNewestResponse ==
    [][\A d \in DeviceTypes :
          (/\ ret'.op \in {"getAllDevicesStatus", "refreshSingleDevice"}
           /\ ret'.value = "true"
           /\ ret'.results[d].state = "done"
           /\ ret'.results[d].success)
          => deviceData'[d].instances = lastFetched'[d]]_vars

\* What the response (or the failure) of a device's own request makes of
\* its record, whatever the requests of the other devices did
OwnOutcome(device, r) ==
    ObjectAssign(UpdateDeviceRecord(device, r.body), r.body.device_info)

\* C7: when getAllDevicesStatus applies its results, every device X whose
\* request failed leaves every other device Y untouched: status, instances
\* and lastSeen of Y are what Y's own result makes of Y's record, a value
\* in which the request of X has no part, so the same as if it had
\* succeeded.
C7_FailureIsIsolated ==
    [][ret'.op = "getAllDevicesStatus"
        => \A X \in DeviceTypes :
              ~ret'.results[X].success
              => \A Y \in DeviceTypes \ {X} :
                    Synced(deviceData'[Y])
                       = Synced(OwnOutcome(deviceData[Y], ret'.results[Y]))]_vars

\* A sync has ended in which the request of keystroke_injector failed and
\* the response of keylogger brought it online with one instance.
C7_Witness ==
    /\ ret.op = "getAllDevicesStatus"
    /\ ~ret.results["keystroke_injector"].success
    /\ ret.results["keylogger"].success
    /\ deviceData["keylogger"].status = "online"
    /\ deviceData["keylogger"].instances = <<"i1">>
    /\ deviceData["keylogger"].lastSeen = "t1"

\* C8: when getAllDevicesStatus applies its results, every device whose
\* request failed has status offline and the step has put an entry about
\* that device in the log (the weakest record of the failure there can be);
\* the function returns and does not throw.
C8_FailureSetsOfflineAndIsRecorded ==
    [][ret'.op = "getAllDevicesStatus"
        => /\ ret'.value \in {"true", "false"}
           /\ \A d \in DeviceTypes :
                 ~ret'.results[d].success
                 => /\ deviceData'[d].status = "offline"
                    /\ \E k \in 1..Len(NewEntries(logs, logs')) :
                          logs'[k].dev = d]_vars

\* C9: when the status request of refreshSingleDevice fails (network error
\* or non-2xx response) the device's status is offline afterwards and the
\* function returns a value that says it failed.
C9_RefreshFailureSetsOffline ==
    [][(ret'.op = "refreshSingleDevice" /\ ret'.outcome \in StatusFailures)
        => /\ deviceData'[ret'.dev].status = "offline"
           /\ ret'.value \in {"false", "undefined"}]_vars

\* C10: refreshSingleDevice started while masterStatus is not 'connected'
\* sends no status request and changes no device record.
C10_RefreshNeedsConnection ==
    [][(/\ ret'.op = "refreshSingleDevice"
        /\ ret'.outcome \in StartOutcomes
        /\ masterStatus # "connected")
        => /\ ret'.outcome = "skipped"
           /\ refreshes' = refreshes
           /\ deviceData' = deviceData]_vars

\* C11: getAllDevicesStatus called while masterStatus is not 'connected'
\* sends no status request, leaves every device record and the log as they
\* were and returns false.
C11_SyncAllNeedsConnection ==
    [][(ret'.op = "getAllDevicesStatusCall" /\ masterStatus # "connected")
        => /\ syncs' = syncs
           /\ InFlight' = InFlight
           /\ deviceData' = deviceData
           /\ logs' = logs
           /\ ret'.value = "false"]_vars

\* getAllDevicesStatus has returned false while disconnected, nothing sent.
C11_Witness ==
    /\ ret.op = "getAllDevicesStatusCall"
    /\ ret.value = "false"
    /\ masterStatus = "disconnected"
    /\ syncs = <<>>

C13_RecordHoldsFetchedValues ==
    [][\A d \in DeviceTypes :
          (/\ ret'.op \in {"getAllDevicesStatus", "refreshSingleDevice"}
           /\ ret'.value = "true"
           /\ ret'.results[d].state = "done"
           /\ ret'.results[d].success)
          => LET fetched == ret'.results[d].body
             IN  /\ fetched.status # Absent
                      => deviceData'[d].status = fetched.status
                 /\ fetched.last_seen # Absent
                      => deviceData'[d].lastSeen = fetched.last_seen
                 /\ deviceData'[d].instances = fetched.instances]_vars

----------------------------------------------------------------------------
(* Command completion *)

\* Ends of a command request with a 2xx status, whatever the body
CommandTwoXX == OkParsed \cup {"badjson"}

\* Ends of a command request that are failures of the request
CommandFailures == {"http_error", "network_error"}

\* The entries a step has added that are of a kind and about a device
Added(old, new, kind, d) ==
    {k \in 1..Len(NewEntries(old, new)) : new[k].kind = kind /\ new[k].dev = d}

\* C14: whenever a command request of sendDeviceCommand ends with a 2xx
\* response, whatever the command and the body, the step records a success
\* entry for the device and schedules one refreshSingleDevice of that
\* device.
C14_SuccessLogsAndSchedulesRefresh ==
    [][(ret'.op = "sendDeviceCommand" /\ ret'.outcome \in CommandTwoXX)
        => /\ Added(logs, logs', "cmd_success", ret'.dev) # {}
           /\ refreshTimers' = BagAdd(refreshTimers, ret'.dev)]_vars

\* C15: when a command request ends, by the success branch, by a non-2xx
\* response, by a network error, by a body that does not parse or by an
\* exception of handleCommandResponse, the page of the device does not
\* carry the loading mark afterwards.
C15_LoadingClearedOnEveryPath ==
    [][(/\ ret'.op \in {"sendDeviceCommand", "controlInstance"}
        /\ ret'.outcome \in CommandOutcomes)
        => deviceData[ret'.dev].id \notin loading']_vars

\* handleCommandResponse has thrown on the null body of a download_logs
\* response, the request of a device that carried the mark, and the mark is
\* gone.
C15_Witness ==
    /\ ret.op = "sendDeviceCommand"
    /\ ret.cmd = "download_logs"
    /\ ret.outcome = "ok_null"
    /\ ret.value = "false"
    /\ deviceData[ret.dev].id \in PageIds
    /\ deviceData[ret.dev].id \notin loading

\* C16: a call of sendDeviceCommand that passes the three early returns
\* sends exactly one command request, with the device, the command and the
\* parameters of the call; when that request fails (non-2xx response or
\* network error) the step records a failure entry for the device, returns
\* false, schedules no refresh and sends no other command request.
C16_OneRequestNoRetry ==
    [][ret'.op = "sendDeviceCommand"
        => /\ ret'.outcome = "dispatched"
                => commands' = Append(commands,
                                      [dev |-> ret'.dev, cmd |-> ret'.cmd,
                                       parameters |-> NoParameters,
                                       via |-> "sendDeviceCommand"])
           /\ ret'.outcome \in CommandFailures
                => /\ Added(logs, logs', "cmd_failed", ret'.dev) # {}
                   /\ ret'.value = "false"
                   /\ Len(commands') = Len(commands) - 1
                   /\ refreshTimers' = refreshTimers]_vars

\* A command request has ended with a non-2xx response: failure entries on
\* top of the log, false returned, nothing in flight.
C16_Witness ==
    /\ ret.op = "sendDeviceCommand"
    /\ ret.outcome = "http_error"
    /\ ret.value = "false"
    /\ Len(logs) >= 2
    /\ logs[1].kind = "notify_failed"
    /\ logs[2].kind = "cmd_failed"
    /\ commands = <<>>
    /\ InFlight = 0

\* C17: a call of sendDeviceCommand while connected, for a device of the
\* registry and with a command of {refresh, reconnect}, sends its command
\* request whatever the status of the device.
C17_AllowlistIgnoresDeviceStatus ==
    [][(/\ ret'.op = "sendDeviceCommand"
        /\ ret'.outcome \in CallOutcomes
        /\ masterStatus = "connected"
        /\ ret'.dev \in DeviceTypes
        /\ ret'.cmd \in StatusIndependent)
        => /\ ret'.outcome = "dispatched"
           /\ Len(commands') = Len(commands) + 1
           /\ commands'[Len(commands')].dev = ret'.dev
           /\ commands'[Len(commands')].cmd = ret'.cmd]_vars

\* refresh has been sent for a device that is offline.
C17_Witness ==
    /\ ret.op = "sendDeviceCommand"
    /\ ret.outcome = "dispatched"
    /\ ret.cmd = "refresh"
    /\ deviceData[ret.dev].status = "offline"
    /\ masterStatus = "connected"
    /\ Len(commands) = 1
    /\ commands[1].dev = ret.dev /\ commands[1].cmd = "refresh"

\* C18: controlInstance(d, instanceId, action) does what
\* sendDeviceCommand(d, 'control_instance', {instanceId, action}) does: it
\* takes the same early returns and sends nothing then, sends exactly one
\* request with these parameters otherwise, and when an early return is
\* taken or the request fails it returns the false sendDeviceCommand
\* returns.
C18_ControlInstanceIsSendCommand ==
    [][ret'.op = "controlInstance"
        => /\ ret'.cmd = "control_instance"
           /\ ret'.outcome \in CallOutcomes
                => /\ ret'.outcome = Precondition(ret'.dev, "control_instance")
                   /\ IF ret'.outcome = "dispatched"
                      THEN /\ Len(commands') = Len(commands) + 1
                           /\ commands'[Len(commands')].dev = ret'.dev
                           /\ commands'[Len(commands')].cmd = "control_instance"
                           /\ Len(commands'[Len(commands')].parameters) = 2
                      ELSE commands' = commands
           /\ ret'.outcome \in (CallOutcomes \ {"dispatched"}) \cup CommandFailures
                => ret'.value = "false"]_vars

----------------------------------------------------------------------------
(* Activity log *)

\* C19: the log never holds more than logMaxEntries entries, and a call of
\* addLog puts its entry at the head and keeps the entries there were
\* behind it in their order: all of them when the log was not full, all but
\* the oldest (the last) when it was.
C19_LogIsBoundedNewestFirst ==
    [][/\ Len(logs) <= logMaxEntries
       /\ Len(logs') <= logMaxEntries
       /\ ret'.op = "addLog"
            => /\ logs'[1].kind = ret'.cmd
               /\ IF Len(logs) = logMaxEntries
                  THEN /\ Len(logs') = logMaxEntries
                       /\ SubSeq(logs', 2, logMaxEntries)
                             = SubSeq(logs, 1, logMaxEntries - 1)
                  ELSE Tail(logs') = logs]_vars

\* The log is full and never was cleared: the oldest entry, that of the
\* start of initializeApplication, has been evicted and the second oldest
\* is the last.
C19_Witness ==
    /\ ret.op = "addLog"
    /\ Len(logs) = logMaxEntries
    /\ logs[logMaxEntries].kind = "ready"
    /\ logs[1].kind = ret.cmd
    /\ \A k \in 1..Len(logs) : logs[k].kind # "initializing"

\* C20: after clearLogs, whatever the log held, the log is the one entry
\* 'Logs cleared' of severity info.
C20_ClearLeavesOneEntry ==
    [][ret'.op = "clearLogs"
        => /\ Len(logs') = 1
           /\ logs'[1] = Entry("logs_cleared", "info", "-")]_vars

\* clearLogs has run.
C20_Witness ==
    /\ ret.op = "clearLogs"
    /\ logs = <<Entry("logs_cleared", "info", "-")>>

----------------------------------------------------------------------------
(* Poll scheduler *)

\* C21: whatever calls of startPeriodicUpdates and stopPeriodicUpdates have
\* been made, the one of initializeApplication included, at most one
\* interval is active, and it is the one updateTimer holds: a start with a
\* timer running has cancelled that timer.
C21_AtMostOneTimer ==
    /\ Cardinality(timers) <= 1
    /\ timers = IF updateTimer = 0 THEN {} ELSE {updateTimer}

\* startPeriodicUpdates has run while a tick of the timer of before was
\* awaiting its probe, and one interval is active.
C21_Witness ==
    /\ ret.op = "startPeriodicUpdates"
    /\ Len(probes) = 1
    /\ probes[1].caller = "tick"
    /\ updateTimer # 0
    /\ timers = {updateTimer}

\* C22: stopPeriodicUpdates called with no timer set changes nothing: not
\* the timer handle, not the active intervals, not the log and no other
\* part of the state.
C22_StopIsIdempotent ==
    [][(ret'.op = "stopPeriodicUpdates" /\ updateTimer = 0)
        => /\ updateTimer' = 0
           /\ timers' = timers
           /\ logs' = logs
           /\ <<masterStatus, deviceData, probes, syncs, refreshTimers,
                refreshes, commands, loading, details>>'
                 = <<masterStatus, deviceData, probes, syncs, refreshTimers,
                     refreshes, commands, loading, details>>]_vars

\* stopPeriodicUpdates has run with no timer set and has logged nothing.
C22_Witness ==
    /\ ret.op = "stopPeriodicUpdates"
    /\ updateTimer = 0
    /\ timers = {}
    /\ logs # <<>>
    /\ logs[1].kind # "updates_stopped"

\* C23: the interval callback sends its health request and no status
\* request; when the probe of a tick ends, the sync starts if the probe
\* returned true and no status request is sent if it returned false; and a
\* sync that is not a direct call of getAllDevicesStatus starts only in the
\* step in which the probe of a tick ends with true.
C23_TickProbesThenSyncs ==
    [][/\ ret'.op = "tick"
            => syncs' = syncs /\ Len(probes') = Len(probes) + 1
       /\ (ret'.op = "checkMasterConnection" /\ ret'.dev = "tick")
            => IF ret'.value = "true"
               THEN Len(syncs') = Len(syncs) + 1
               ELSE syncs' = syncs
       /\ (Len(syncs') > Len(syncs) /\ ret'.op # "getAllDevicesStatusCall")
            => /\ ret'.op = "checkMasterConnection"
               /\ ret'.dev = "tick"
               /\ ret'.value = "true"
               /\ Len(probes') = Len(probes) - 1]_vars

\* The probe of a tick has failed and no status request is in flight.
C23_Witness ==
    /\ ret.op = "checkMasterConnection"
    /\ ret.dev = "tick"
    /\ ret.value = "false"
    /\ masterStatus = "disconnected"
    /\ syncs = <<>>
    /\ timers # {}

----------------------------------------------------------------------------
(* Deadlines *)

\* C24: every request has a deadline, so that with the timers of the
\* browser firing, and whatever the server does, a getAllDevicesStatus that
\* has sent its status requests ends.
C24_SyncAllEnds == (Len(syncs) > 0) ~> (Len(syncs) = 0)

----------------------------------------------------------------------------
(* Connection state *)

\* C25: masterStatus is the outcome of the youngest health request that has
\* ended: when a health request ends after one sent later than it has
\* ended, it leaves masterStatus as it is.
C25_NewestProbeWins ==
    [][(/\ ret'.op = "checkMasterConnection"
        /\ \E i \in 1..Len(probes) :
              probes[i].overtaken /\ probes' = ProbeEnds(probes, i))
        => masterStatus' = masterStatus]_vars

\* C26: masterStatus changes only in a step of checkMasterConnection: the
\* calls and the ends, failures included, of sendDeviceCommand,
\* controlInstance, getAllDevicesStatus, refreshSingleDevice,
\* loadDeviceDetails, the scheduler and the log leave it as it is.
C26_OnlyTheProbeSetsMasterStatus ==
    [][/\ masterStatus' # masterStatus => ret'.op = "checkMasterConnection"
       /\ ret'.op \in {"sendDeviceCommand", "controlInstance",
                       "getAllDevicesStatus", "getAllDevicesStatusCall",
                       "statusResolved", "refreshSingleDevice",
                       "loadDeviceDetails", "clearLogs", "tick",
                       "startPeriodicUpdates", "stopPeriodicUpdates"}
            => masterStatus' = masterStatus]_vars

\* The details request of a device has failed by a network error and the
\* page is still connected.
C26_Witness ==
    /\ ret.op = "loadDeviceDetails"
    /\ ret.outcome = "network_error"
    /\ ret.value = "false"
    /\ masterStatus = "connected"

----------------------------------------------------------------------------
(* Failures *)

\* The step r tells of is the end of an operation whose request failed
RequestFailed(r) ==
    \/ r.op = "checkMasterConnection" /\ r.outcome # "ok"
    \/ r.op = "refreshSingleDevice" /\ r.outcome \in StatusFailures
    \/ r.op = "loadDeviceDetails" /\ r.outcome \in DetailsFailures
    \/ r.op = "sendDeviceCommand" /\ r.outcome \in CommandFailures

\* Values that do not say success
NonSuccess == {"false", "undefined"}

\* C27: when the request of checkMasterConnection, refreshSingleDevice,
\* loadDeviceDetails or sendDeviceCommand fails, the operation adds an entry
\* to the log and returns a value that does not say success; when a status
\* request of getAllDevicesStatus fails, the sync adds an entry about that
\* device to the log.
C27_FailuresAreLoggedAndReturned ==
    [][/\ RequestFailed(ret')
            => Len(logs') > Len(logs) /\ ret'.value \in NonSuccess
       /\ ret'.op = "getAllDevicesStatus"
            => \A d \in DeviceTypes :
                  ~ret'.results[d].success
                  => \E k \in 1..Len(NewEntries(logs, logs')) :
                        logs'[k].dev = d]_vars

\* The step r tells of is the end of a probe, a sync or a command that
\* failed, wholly or for one device
SomethingFailed(r) ==
    \/ RequestFailed(r)
    \/ r.op = "getAllDevicesStatus"
         /\ \E d \in DeviceTypes : ~r.results[d].success
    \/ r.op \in {"sendDeviceCommand", "controlInstance"}
         /\ r.outcome \in CommandOutcomes \ {"ok", "ok_download"}

\* C28: a failed probe, a failed or partly failed getAllDevicesStatus and a
\* failed command leave the interval and its handle as they are, as every
\* step does that is not a start or a stop of the scheduler; while an
\* interval is active its callback can run (the bounds of the exploration
\* permitting) and sends a health request; and when the probe of a tick
\* returns true the sync of all devices starts again.
C28_PollingSurvivesFailures ==
    [][/\ SomethingFailed(ret') /\ ~(ret'.op = "checkMasterConnection"
                                      /\ ret'.dev = "init")
            => timers' = timers /\ updateTimer' = updateTimer
       /\ (timers' # timers \/ updateTimer' # updateTimer)
            => \/ ret'.op \in {"startPeriodicUpdates", "stopPeriodicUpdates"}
               \/ ret'.op = "checkMasterConnection" /\ ret'.dev = "init"
       /\ (timers # {} /\ CanLog /\ InFlight < MaxInFlight)
            => ENABLED (\E t \in timers : Tick(t))
       /\ (ret'.op = "checkMasterConnection" /\ ret'.dev = "tick"
              /\ ret'.value = "true")
            => /\ Len(syncs') = Len(syncs) + 1
               /\ \A d \in DeviceTypes :
                     syncs'[Len(syncs')][d].state = "pending"]_vars

\* A command request has failed on the network with the interval active
\* and the page connected.
C28_Witness ==
    /\ ret.op = "sendDeviceCommand"
    /\ ret.outcome = "network_error"
    /\ updateTimer # 0
    /\ timers = {updateTimer}
    /\ masterStatus = "connected"

----------------------------------------------------------------------------
(* Aggregation of a sync *)

\* C29: while a status request of a getAllDevicesStatus is pending, the
\* requests of that sync that resolve change no device record and add
\* nothing to the log; the records are written in the one step in which the
\* last request resolves, with every request resolved, and by no other step
\* of the poll.
C29_NoUpdateBeforeAllResolved ==
    [][/\ ret'.op = "statusResolved"
            => /\ deviceData' = deviceData
               /\ logs' = logs
               /\ Len(syncs') = Len(syncs)
       /\ ret'.op = "getAllDevicesStatus"
            => /\ \A d \in DeviceTypes : ret'.results[d].state = "done"
               /\ Len(syncs') = Len(syncs) - 1
       /\ deviceData' # deviceData => ret'.op = "getAllDevicesStatus"]_vars

\* The keylogger has answered that it is online, the request of evil_twin
\* is pending, and the record of the keylogger still says offline.
C29_Witness ==
    /\ Len(syncs) = 1
    /\ syncs[1]["keylogger"].state = "done"
    /\ syncs[1]["keylogger"].success
    /\ syncs[1]["keylogger"].body.status = "online"
    /\ syncs[1]["evil_twin"].state = "pending"
    /\ deviceData["keylogger"].status = "offline"
    /\ deviceData["keylogger"].instances = <<>>

----------------------------------------------------------------------------
(* Device registry *)

\* C30: in every state the id, the endpoint and the capabilities of every
\* device record are those of the configuration.
C30_ConfiguredFieldsAreFixed ==
    \A d \in DeviceTypes :
        /\ deviceData[d].id = DeviceId(d)
        /\ deviceData[d].endpoint = DeviceEndpoint(d)
        /\ deviceData[d].capabilities = DeviceCapabilities(d)

\* C31: in every reachable state the registry has exactly the four keys it
\* was constructed with; no operation and no server answer adds or removes
\* a device.
C31_RegistryKeysAreFixed == DOMAIN deviceData = DeviceTypes

\* A round has ended in which one device answered and another did not, and
\* the registry still has its four keys.
C31_Witness ==
    /\ ret.op = "getAllDevicesStatus"
    /\ \E d \in DeviceTypes : ret.results[d].success
    /\ \E d \in DeviceTypes : ~ret.results[d].success
    /\ DOMAIN deviceData = DeviceTypes

\* C32: for every device the loading mark of its page is set in exactly the
\* states in which at least one command request for that device is in
\* flight; with two commands to one device in flight the mark stays until
\* the last of them has ended.
C32_LoadingWhileAnyInFlight ==
    \A d \in DeviceTypes :
        (deviceData[d].id \in loading)
            <=> (\E i \in 1..Len(commands) : commands[i].dev = d)

\* C33: a command changes no device record on any of its paths: neither the
\* call, whichever early return it takes, nor the end of its request,
\* whether success, HTTP failure or transport error.  A call that stops at
\* an early return also sets no loading mark, sends no request and
\* schedules no refresh.
C33_CommandLeavesRecordsAlone ==
    [][ret'.op \in {"sendDeviceCommand", "controlInstance"}
          => /\ deviceData' = deviceData
             /\ (ret'.outcome \in CallOutcomes \ {"dispatched"}
                   => /\ loading' = loading
                      /\ commands' = commands
                      /\ refreshTimers' = refreshTimers
                      /\ refreshes' = refreshes)]_vars

\* A command to a device that is online with an instance has failed over
\* HTTP, and the device is still online with its instance.
C33_Witness ==
    /\ ret.op = "sendDeviceCommand"
    /\ ret.outcome = "http_error"
    /\ ret.dev \in DeviceTypes
    /\ deviceData[ret.dev].status = "online"
    /\ deviceData[ret.dev].instances # <<>>

\* C34: when stopPeriodicUpdates returns no interval is left and it has
\* touched no request in flight; from then until startPeriodicUpdates sets
\* a handle again the timer starts no tick, so no health probe is issued by
\* it.  The requests of a tick that was in flight are left to complete.
C34_NoTickAfterStop ==
    [][/\ (ret'.op = "stopPeriodicUpdates"
             => /\ updateTimer' = 0
                /\ timers' = {}
                /\ probes' = probes
                /\ syncs' = syncs)
       /\ (updateTimer = 0
             => /\ ret'.op # "tick"
                /\ ~ENABLED (\E t \in timers : Tick(t)))]_vars

\* The probe of a tick that was in flight when the scheduler was stopped
\* completes after the stop and finds the master.
C34_Witness ==
    /\ ret.op = "checkMasterConnection"
    /\ ret.dev = "tick"
    /\ ret.outcome = "ok"
    /\ masterStatus = "connected"
    /\ updateTimer = 0
    /\ timers = {}

====
